---- MODULE Spec2Model ----
(***************************************************************************)
(* Reading list application: the Book model (models/Book.js), which keeps  *)
(* the whole collection in one JSON file read and rewritten on every       *)
(* operation, and the books controller, which maps each route to one model *)
(* call and one response.                                                  *)
(*                                                                         *)
(* JavaScript values are tagged records: Num(n), Str(s), NaN, Undefined,   *)
(* Null. A Book object is a function from its own property names to        *)
(* values. The JSON file is the sequence of its objects, each the sequence *)
(* of its <<key, token>> members in the order they were written.           *)
(***************************************************************************)
EXTENDS Integers, Sequences, FiniteSets, TLC

\* ------------------------------------------------------------- bounds
\* The largest reading of the millisecond clock.
MaxClock == 2
\* The largest number of books a create is let to grow the collection to.
MaxBooks == 3
\* The largest number of requests dispatched to handlers that run in steps.
MaxRequests == 3

VARIABLES
    file,        \* content of data/books.json: the JSON text, as its members
    clock,       \* the reading Date.now() returns
    op,          \* the controller function that handled the last request
    bookId,      \* its parsed path id (Undefined for routes without :id)
    body,        \* its req.body (no field for routes that read none)
    result,      \* what the Book model call of that request returned
    saved,       \* <<>> if that request called writeBooks with no collection,
                 \* else <<books>>: the collection it passed to writeBooks
    written,     \* the collection most recently passed to writeBooks
                 \* (the initial collection if none was)
    lastCreate,  \* the clock reading of the most recent addBook (0 if none)
    response,    \* the response the controller sent
    fault        \* "none", or why books.json cannot be loaded: it is
                 \* missing (ENOENT), unreadable (EACCES) or no JSON
                 \* (SyntaxError)

\* The requests in progress, for the specifications in which a handler's
\* load and save are separate steps.
VARIABLES
    inflight,    \* per slot: the server process it belongs to, whether its
                 \* handler is between readBooks and writeBooks, the
                 \* request, what was loaded and computed, the response
    expected,    \* the file content that handling the dispatched requests
                 \* one after another, in dispatch order, gives
    dispatched   \* the number of requests dispatched to the slots

vars ==
    <<file, clock, op, bookId, body, result, saved, written, lastCreate,
      response, fault, inflight, expected, dispatched>>

\* The variables of the requests in progress.
stepVars == <<inflight, expected, dispatched>>

\* The variables of the last request handled in one step.
lastVars ==
    <<op, bookId, body, result, saved, written, lastCreate, response, fault>>

\* ------------------------------------------------------ JavaScript values
Num(n) == [t |-> "number", v |-> n]
Str(s) == [t |-> "string", v |-> s]
NaN == [t |-> "NaN"]
Undefined == [t |-> "undefined"]
Null == [t |-> "null"]

\* A primitive is a tagged record; a Book object has no tag.
IsPrimitive(x) == "t" \in DOMAIN x

\* a === b on primitives: NaN equals nothing, itself included.
StrictEq(a, b) == a # NaN /\ b # NaN /\ a = b

\* ToBoolean: objects are truthy; undefined, null, NaN, 0 and "" are falsy.
Truthy(x) ==
    IF IsPrimitive(x)
    THEN x \notin {Undefined, Null, NaN, Num(0), Str("")}
    ELSE TRUE

\* obj.k: the value of an own property, undefined when the object has none.
Get(obj, k) == IF k \in DOMAIN obj THEN obj[k] ELSE Undefined

\* The property names of a Book, in the order the object literals list them.
KeyOrder == <<"id", "title", "author", "cost", "shoppingUrl">>
Keys == {KeyOrder[i] : i \in DOMAIN KeyOrder}

\* ------------------------------------------------------------- JSON
\* JSON.stringify of a property value: a non-finite number is written null.
StringifyValue(x) ==
    CASE x.t = "number" -> [j |-> "number", v |-> x.v]
      [] x.t = "string" -> [j |-> "string", v |-> x.v]
      [] OTHER          -> [j |-> "null"]

\* JSON.stringify of an object: its own properties in order, those whose
\* value is undefined left out.
RECURSIVE StringifyMembers(_, _)
StringifyMembers(obj, i) ==
    IF i > Len(KeyOrder) THEN <<>>
    ELSE LET k == KeyOrder[i]
         IN (IF k \in DOMAIN obj /\ obj[k] # Undefined
             THEN << <<k, StringifyValue(obj[k])>> >>
             ELSE <<>>) \o StringifyMembers(obj, i + 1)

StringifyObject(obj) == StringifyMembers(obj, 1)

\* JSON.stringify(books, null, 2): the array's elements in order.
JSONstringify(books) == [i \in DOMAIN books |-> StringifyObject(books[i])]

\* JSON.parse of a value token.
ParseValue(tok) ==
    CASE tok.j = "number" -> Num(tok.v)
      [] tok.j = "string" -> Str(tok.v)
      [] OTHER            -> Null

\* JSON.parse of an object: a property per member (the last member of a
\* name wins).
ParseObject(members) ==
    [k \in {members[i][1] : i \in DOMAIN members} |->
        LET last == CHOOSE i \in DOMAIN members :
                        /\ members[i][1] = k
                        /\ \A j \in DOMAIN members : members[j][1] = k => j <= i
        IN ParseValue(members[last][2])]

JSONparse(text) == [i \in DOMAIN text |-> ParseObject(text[i])]

\* ------------------------------------------------------ models/Book.js
readBooks(f) == JSONparse(f)

\* The ways books.json can fail to load.
Faults == {"ENOENT", "EACCES", "SyntaxError"}

\* readBooks with its body in try { } catch { return [] }.
readBooksThrows_caught(flt) == FALSE

\* Whether fs.readFileSync or JSON.parse throws in readBooks. No function
\* of the model or the controller catches: the request ends there.
readBooksThrows(flt) == flt \in Faults

\* What a call that ended in an exception gives its caller: no value.
Thrown(flt) == [t |-> "throw", error |-> flt]

\* writeBooks with fs.appendFileSync in place of fs.writeFileSync.
writeBooks_append(f, books) == f \o JSONstringify(books)

\* writeBooks that keeps, after the books it is given, the entries of the
\* file that are not among them.
writeBooks_merge(f, books) ==
    LET mine == JSONstringify(books)
    IN mine \o SelectSeq(f, LAMBDA o : \A i \in DOMAIN mine : mine[i] # o)

\* fs.writeFileSync overwrites the file: what it held before, f, is gone.
writeBooks(f, books) == JSONstringify(books)

\* findIndex with a match decided by order, !(book.id < id || book.id > id),
\* which NaN passes against every id.
findIndex_unordered(books, id) ==
    LET Match(a, b) == IF a.t = "number" /\ b.t = "number" THEN a.v = b.v
                       ELSE a = NaN \/ b = NaN
    IN IF \E i \in DOMAIN books : Match(Get(books[i], "id"), id)
       THEN (CHOOSE i \in DOMAIN books :
               /\ Match(Get(books[i], "id"), id)
               /\ \A j \in DOMAIN books :
                    Match(Get(books[j], "id"), id) => i <= j) - 1
       ELSE -1

\* findIndex with books.findLastIndex in its place.
findIndex_last(books, id) ==
    IF \E i \in DOMAIN books : StrictEq(Get(books[i], "id"), id)
    THEN (CHOOSE i \in DOMAIN books :
            /\ StrictEq(Get(books[i], "id"), id)
            /\ \A j \in DOMAIN books :
                 StrictEq(Get(books[j], "id"), id) => j <= i) - 1
    ELSE -1

\* books.findIndex((book) => book.id === id): 0-based, -1 when none matches.
findIndex(books, id) ==
    IF \E i \in DOMAIN books : StrictEq(Get(books[i], "id"), id)
    THEN (CHOOSE i \in DOMAIN books :
            /\ StrictEq(Get(books[i], "id"), id)
            /\ \A j \in DOMAIN books :
                 StrictEq(Get(books[j], "id"), id) => i <= j) - 1
    ELSE -1

\* books.find((book) => book.id === id): the element, undefined when none.
find(books, id) ==
    LET i == findIndex(books, id)
    IN IF i = -1 THEN Undefined ELSE books[i + 1]

\* books.splice(index, 1) leaves books without the element at 0-based index.
RemoveAt(books, index) ==
    [i \in 1..(Len(books) - 1) |-> IF i <= index THEN books[i] ELSE books[i + 1]]

\* Each model function maps the file content to the content it leaves, the
\* value it returns and the collection it passed to writeBooks (if any).
Book_getAllBooks(f) == [file |-> f, ret |-> readBooks(f), saved |-> <<>>]

\* addBook with books.unshift(newBook) in place of books.push(newBook).
Book_addBook_unshift(f, now, title, author, cost, shoppingUrl) ==
    LET books == readBooks(f)
        newBook == [id |-> Num(now), title |-> title, author |-> author,
                    cost |-> cost, shoppingUrl |-> shoppingUrl]
        unshifted == <<newBook>> \o books
    IN [file |-> writeBooks(f, unshifted), ret |-> newBook,
        saved |-> <<unshifted>>]

\* addBook that refuses an id the collection already holds.
Book_addBook_unique(f, now, title, author, cost, shoppingUrl) ==
    LET books == readBooks(f)
        newBook == [id |-> Num(now), title |-> title, author |-> author,
                    cost |-> cost, shoppingUrl |-> shoppingUrl]
        pushed == Append(books, newBook)
    IN IF findIndex(books, Num(now)) # -1
       THEN [file |-> f, ret |-> Null, saved |-> <<>>]
       ELSE [file |-> writeBooks(f, pushed), ret |-> newBook,
             saved |-> <<pushed>>]

\* addBook that returns the new book without calling writeBooks.
Book_addBook_noSave(f, now, title, author, cost, shoppingUrl) ==
    LET newBook == [id |-> Num(now), title |-> title, author |-> author,
                    cost |-> cost, shoppingUrl |-> shoppingUrl]
    IN [file |-> f, ret |-> newBook, saved |-> <<>>]

Book_addBook(f, now, title, author, cost, shoppingUrl) ==
    LET books == readBooks(f)
        newBook == [id |-> Num(now), title |-> title, author |-> author,
                    cost |-> cost, shoppingUrl |-> shoppingUrl]
        pushed == Append(books, newBook)
    IN [file |-> writeBooks(f, pushed), ret |-> newBook, saved |-> <<pushed>>]

Book_getBookById(f, id) ==
    [file |-> f, ret |-> find(readBooks(f), id), saved |-> <<>>]

\* updateBook that keeps the old value of a field the caller leaves
\* undefined ({ ...books[bookIndex], ...given }).
Book_updateBook_merge(f, id, title, author, cost, shoppingUrl) ==
    LET books == readBooks(f)
        bookIndex == findIndex(books, id)
        old == books[bookIndex + 1]
        Merged(k, given) == IF given = Undefined THEN Get(old, k) ELSE given
    IN IF bookIndex = -1
       THEN [file |-> f, ret |-> Null, saved |-> <<>>]
       ELSE LET assigned ==
                    [books EXCEPT ![bookIndex + 1] =
                        [id |-> id, title |-> Merged("title", title),
                         author |-> Merged("author", author),
                         cost |-> Merged("cost", cost),
                         shoppingUrl |-> Merged("shoppingUrl", shoppingUrl)]]
            IN [file |-> writeBooks(f, assigned),
                ret |-> assigned[bookIndex + 1], saved |-> <<assigned>>]

\* updateBook that pushes the new version and leaves the old one in place.
Book_updateBook_push(f, id, title, author, cost, shoppingUrl) ==
    LET books == readBooks(f)
        bookIndex == findIndex(books, id)
        updated == [id |-> id, title |-> title, author |-> author,
                    cost |-> cost, shoppingUrl |-> shoppingUrl]
    IN IF bookIndex = -1
       THEN [file |-> f, ret |-> Null, saved |-> <<>>]
       ELSE [file |-> writeBooks(f, Append(books, updated)), ret |-> updated,
             saved |-> <<Append(books, updated)>>]

\* updateBook with the final return statement left out.
Book_updateBook_noReturn(f, id, title, author, cost, shoppingUrl) ==
    LET books == readBooks(f)
        bookIndex == findIndex(books, id)
    IN IF bookIndex = -1
       THEN [file |-> f, ret |-> Null, saved |-> <<>>]
       ELSE LET assigned ==
                    [books EXCEPT ![bookIndex + 1] =
                        [id |-> id, title |-> title, author |-> author,
                         cost |-> cost, shoppingUrl |-> shoppingUrl]]
            IN [file |-> writeBooks(f, assigned), ret |-> Undefined,
                saved |-> <<assigned>>]

Book_updateBook(f, id, title, author, cost, shoppingUrl) ==
    LET books == readBooks(f)
        bookIndex == findIndex(books, id)
    IN IF bookIndex = -1
       THEN [file |-> f, ret |-> Null, saved |-> <<>>]
       ELSE LET assigned ==
                    [books EXCEPT ![bookIndex + 1] =
                        [id |-> id, title |-> title, author |-> author,
                         cost |-> cost, shoppingUrl |-> shoppingUrl]]
            IN [file |-> writeBooks(f, assigned), ret |-> assigned[bookIndex + 1],
                saved |-> <<assigned>>]

\* deleteBook without its bookIndex === -1 check: books.splice(-1, 1) takes
\* the last book out.
Book_deleteBook_noCheck(f, id) ==
    LET books == readBooks(f)
        bookIndex == findIndex(books, id)
        at == IF bookIndex = -1 THEN Len(books) - 1 ELSE bookIndex
    IN IF Len(books) = 0
       THEN [file |-> writeBooks(f, books), ret |-> Undefined,
             saved |-> <<books>>]
       ELSE [file |-> writeBooks(f, RemoveAt(books, at)),
             ret |-> books[at + 1], saved |-> <<RemoveAt(books, at)>>]

\* deleteBook with books.filter((book) => book.id !== id) in place of the
\* splice.
Book_deleteBook_filter(f, id) ==
    LET books == readBooks(f)
        bookIndex == findIndex(books, id)
        kept == SelectSeq(books, LAMBDA b : ~StrictEq(Get(b, "id"), id))
    IN IF bookIndex = -1
       THEN [file |-> f, ret |-> Null, saved |-> <<>>]
       ELSE [file |-> writeBooks(f, kept), ret |-> books[bookIndex + 1],
             saved |-> <<kept>>]

Book_deleteBook(f, id) ==
    LET books == readBooks(f)
        bookIndex == findIndex(books, id)
    IN IF bookIndex = -1
       THEN [file |-> f, ret |-> Null, saved |-> <<>>]
       ELSE LET deletedBook == books[bookIndex + 1]
                spliced == RemoveAt(books, bookIndex)
            IN [file |-> writeBooks(f, spliced), ret |-> deletedBook,
                saved |-> <<spliced>>]

\* ---------------------------------------------- strings and parseInt
\* A string the code takes apart is the sequence of its characters.
DigitChars == <<"0", "1", "2", "3", "4", "5", "6", "7", "8", "9",
                "a", "b", "c", "d", "e", "f">>

\* Whether c is a digit of the radix (lower-case letters only).
IsDigit(c, radix) == \E i \in 1..radix : DigitChars[i] = c

DigitVal(c) == (CHOOSE i \in DOMAIN DigitChars : DigitChars[i] = c) - 1

RECURSIVE TrimStart(_)
TrimStart(s) ==
    IF Len(s) > 0 /\ s[1] \in {" ", "\t"} THEN TrimStart(Tail(s)) ELSE s

\* The length of the longest prefix of s made of digits of the radix.
RECURSIVE DigitPrefix(_, _)
DigitPrefix(s, radix) ==
    IF Len(s) > 0 /\ IsDigit(s[1], radix)
    THEN 1 + DigitPrefix(Tail(s), radix)
    ELSE 0

\* The number the digits s write in the radix, most significant first.
RECURSIVE DigitsValue(_, _)
DigitsValue(s, radix) ==
    IF Len(s) = 0 THEN 0
    ELSE DigitsValue(SubSeq(s, 1, Len(s) - 1), radix) * radix
         + DigitVal(s[Len(s)])

\* parseInt(string) with no radix: leading white space is skipped, a sign
\* is read, "0x" selects radix 16, the longest prefix of digits is the
\* number, and no digit at all gives NaN.
parseInt(s) ==
    LET trimmed == TrimStart(s)
        negative == Len(trimmed) > 0 /\ trimmed[1] = "-"
        unsigned == IF Len(trimmed) > 0 /\ trimmed[1] \in {"-", "+"}
                    THEN Tail(trimmed) ELSE trimmed
        hex == /\ Len(unsigned) >= 2
               /\ unsigned[1] = "0"
               /\ unsigned[2] \in {"x", "X"}
        radix == IF hex THEN 16 ELSE 10
        digits == IF hex THEN SubSeq(unsigned, 3, Len(unsigned)) ELSE unsigned
        n == DigitPrefix(digits, radix)
        magnitude == DigitsValue(SubSeq(digits, 1, n), radix)
    IN IF n = 0 THEN NaN
       ELSE Num(IF negative THEN 0 - magnitude ELSE magnitude)

\* The decimal digits of a natural number.
RECURSIVE NatToString(_)
NatToString(n) ==
    IF n < 10 THEN <<DigitChars[n + 1]>>
    ELSE NatToString(n \div 10) \o <<DigitChars[(n % 10) + 1]>>

\* `${bookId}`: the string a template literal makes of a number.
NumberToString(x) ==
    IF x = NaN THEN <<"N", "a", "N">>
    ELSE IF x.v < 0 THEN <<"-">> \o NatToString(0 - x.v)
    ELSE NatToString(x.v)

\* ------------------------------------------------------------- requests
\* The :id segments requests carry: the decimal ids the clock can have
\* issued, and segments that are no plain decimal of one.
PathIds ==
    {NatToString(n) : n \in 1..MaxClock}
        \cup { <<"a", "b", "c">>, <<" ", "1">>, <<"2", "a">>, <<"-", "1">>,
               <<"0", "x", "2">> }

\* The urlencoded form bodies requests carry: every value a form sends is
\* a string, and a field the form leaves out is absent from req.body.
FormBodies ==
    { [title |-> Str("Dune"), author |-> Str("Herbert"),
       cost |-> Str("15"), shoppingUrl |-> Str("http://x")],
      [title |-> Str("T2"), cost |-> Str("20")] }

\* ------------------------------------------- controllers/booksController
\* The req.body of a request whose handler reads no form field.
NoBody == <<>>

NotFoundResponse == [status |-> 404, send |-> "Book not found"]

Render(view, data) == [status |-> 200, render |-> view, data |-> data]

Redirect(target) == [status |-> 302, redirect |-> target]

\* No controller function catches: the exception leaves it, and the request
\* gets the error answer of the framework.
ErrorResponse == [status |-> 500]

\* What one request leaves behind: r is the model call's outcome, had
\* unless readBooks throws.
Handled(name, id, form, r, resp) ==
    /\ op' = name
    /\ bookId' = id
    /\ body' = form
    /\ IF readBooksThrows(fault)
       THEN /\ file' = file
            /\ result' = Thrown(fault)
            /\ saved' = <<>>
            /\ written' = written
            /\ response' = ErrorResponse
       ELSE /\ file' = r.file
            /\ result' = r.ret
            /\ saved' = r.saved
            /\ written' = IF r.saved = <<>> THEN written ELSE r.saved[1]
            /\ response' = resp
    /\ UNCHANGED <<fault, stepVars>>

getAllBooks ==
    LET r == Book_getAllBooks(file)
    IN /\ Handled("getAllBooks", Undefined, NoBody, r, Render("index", r.ret))
       /\ UNCHANGED <<clock, lastCreate>>

addBook ==
    \E form \in FormBodies :
        LET r == Book_addBook(file, clock, Get(form, "title"),
                              Get(form, "author"), Get(form, "cost"),
                              Get(form, "shoppingUrl"))
        IN /\ Len(file) < MaxBooks
           /\ Handled("addBook", Undefined, form, r, Redirect(<<"/">>))
           /\ lastCreate' = IF readBooksThrows(fault) THEN lastCreate
                            ELSE clock
           /\ UNCHANGED clock

getBook ==
    \E p \in PathIds :
        LET id == parseInt(p)
            r == Book_getBookById(file, id)
        IN /\ Handled("getBook", id, NoBody, r,
                      IF ~Truthy(r.ret) THEN NotFoundResponse
                      ELSE Render("book", r.ret))
           /\ UNCHANGED <<clock, lastCreate>>

updateBook ==
    \E p \in PathIds, form \in FormBodies :
        LET id == parseInt(p)
            r == Book_updateBook(file, id, Get(form, "title"),
                                 Get(form, "author"), Get(form, "cost"),
                                 Get(form, "shoppingUrl"))
        IN /\ Handled("updateBook", id, form, r,
                      IF ~Truthy(r.ret) THEN NotFoundResponse
                      ELSE Redirect(<<"/", "b", "o", "o", "k", "/">>
                                    \o NumberToString(id)))
           /\ UNCHANGED <<clock, lastCreate>>

showEditForm ==
    \E p \in PathIds :
        LET id == parseInt(p)
            r == Book_getBookById(file, id)
        IN /\ Handled("showEditForm", id, NoBody, r,
                      IF ~Truthy(r.ret) THEN NotFoundResponse
                      ELSE Render("edit", r.ret))
           /\ UNCHANGED <<clock, lastCreate>>

deleteBook ==
    \E p \in PathIds :
        LET id == parseInt(p)
            r == Book_deleteBook(file, id)
        IN /\ Handled("deleteBook", id, NoBody, r,
                      IF ~Truthy(r.ret) THEN NotFoundResponse
                      ELSE Redirect(<<"/">>))
           /\ UNCHANGED <<clock, lastCreate>>

\* ------------------------------------------- handlers that run in steps
\* The requests that can be in progress at once.
Slots == {1, 2}

\* A slot whose handler has returned (or has handled nothing yet), in
\* server process p.
IdleSlot(p) ==
    [pc |-> "idle", proc |-> p, req |-> [op |-> "none"], now |-> 0,
     snap |-> <<>>, out |-> [saved |-> <<>>], overtaken |-> FALSE,
     resp |-> [status |-> 0]]

\* The requests dispatched to the slots: creates, and a show, an update and
\* a delete of the id of the first clock reading.
SlotRequests ==
    {[op |-> "addBook", path |-> <<>>, form |-> f] : f \in FormBodies}
        \cup {[op |-> "updateBook", path |-> <<"1">>, form |-> f] :
                 f \in FormBodies}
        \cup {[op |-> "deleteBook", path |-> <<"1">>, form |-> NoBody],
               [op |-> "getBook", path |-> <<"1">>, form |-> NoBody]}

\* The model call the controller function of the request makes, on file
\* content f at clock reading now.
Perform(req, f, now) ==
    CASE req.op = "addBook" ->
           Book_addBook(f, now, Get(req.form, "title"),
                        Get(req.form, "author"), Get(req.form, "cost"),
                        Get(req.form, "shoppingUrl"))
      [] req.op = "updateBook" ->
           Book_updateBook(f, parseInt(req.path), Get(req.form, "title"),
                           Get(req.form, "author"), Get(req.form, "cost"),
                           Get(req.form, "shoppingUrl"))
      [] req.op = "deleteBook" -> Book_deleteBook(f, parseInt(req.path))
      [] req.op = "getBook" -> Book_getBookById(f, parseInt(req.path))

\* The response the controller function sends for what the model call
\* returned.
ResponseTo(req, ret) ==
    CASE req.op = "addBook" -> Redirect(<<"/">>)
      [] req.op = "updateBook" ->
           IF ~Truthy(ret) THEN NotFoundResponse
           ELSE Redirect(<<"/", "b", "o", "o", "k", "/">>
                         \o NumberToString(parseInt(req.path)))
      [] req.op = "deleteBook" ->
           IF ~Truthy(ret) THEN NotFoundResponse ELSE Redirect(<<"/">>)
      [] req.op = "getBook" ->
           IF ~Truthy(ret) THEN NotFoundResponse ELSE Render("book", ret)

\* Handlers with fs.promises and await in place of the Sync calls: a
\* handler of the process can start while another waits for its file.
RunsToCompletion_async(h) == TRUE

\* readFileSync and writeFileSync block the process, and nothing between
\* them yields: a process starts a handler only when none of its handlers
\* is between its load and its save.
RunsToCompletion(h) ==
    \A g \in Slots \ {h} :
        inflight[g].proc = inflight[h].proc => inflight[g].pc = "idle"

\* The handler of slot h is dispatched a request, runs readBooks, reads the
\* clock and changes its copy of the collection.
Load(h) ==
    /\ dispatched < MaxRequests
    /\ inflight[h].pc = "idle"
    /\ RunsToCompletion(h)
    /\ \E req \in SlotRequests :
          /\ inflight' =
                [inflight EXCEPT ![h] =
                    [pc |-> "loaded", proc |-> @.proc, req |-> req,
                     now |-> clock, snap |-> file,
                     out |-> Perform(req, file, clock), overtaken |-> FALSE,
                     resp |-> [status |-> 0]]]
          /\ expected' = Perform(req, expected, clock).file
    /\ dispatched' = dispatched + 1
    /\ UNCHANGED <<file, clock, lastVars>>

\* The handler of slot h runs writeBooks, if its model call gets that far,
\* and responds.
Save(h) ==
    /\ inflight[h].pc = "loaded"
    /\ LET me == inflight[h]
           writes == me.out.saved # <<>>
       IN /\ file' = IF writes THEN writeBooks(file, me.out.saved[1])
                     ELSE file
          /\ inflight' =
                [g \in Slots |->
                    IF g = h
                    THEN [me EXCEPT !.pc = "idle",
                                    !.resp = ResponseTo(me.req, me.out.ret)]
                    ELSE IF writes /\ inflight[g].pc = "loaded"
                    THEN [inflight[g] EXCEPT !.overtaken = TRUE]
                    ELSE inflight[g]]
    /\ UNCHANGED <<clock, lastVars, expected, dispatched>>

\* A millisecond passes.
Tick ==
    /\ clock < MaxClock
    /\ clock' = clock + 1
    /\ UNCHANGED <<file, op, bookId, body, result, saved, written,
                   lastCreate, response, fault, stepVars>>

\* ------------------------------------------------------- specifications
\* The server has started, books.json holds the empty array and no request
\* has been handled.
Init ==
    /\ file = <<>>
    /\ clock = 1
    /\ op = "none"
    /\ bookId = Undefined
    /\ body = NoBody
    /\ result = Undefined
    /\ saved = <<>>
    /\ written = readBooks(<<>>)
    /\ lastCreate = 0
    /\ response = [status |-> 0]
    /\ fault = "none"
    /\ inflight = [h \in Slots |-> IdleSlot(1)]
    /\ expected = file
    /\ dispatched = 0

Next ==
    \/ getAllBooks
    \/ addBook
    \/ getBook
    \/ updateBook
    \/ showEditForm
    \/ deleteBook
    \/ Tick

Spec == Init /\ [][Next]_vars

\* A create is only requested once the clock has passed the reading of the
\* one before it.
addBookLater == clock > lastCreate /\ addBook

NextTicking ==
    \/ getAllBooks
    \/ addBookLater
    \/ getBook
    \/ updateBook
    \/ showEditForm
    \/ deleteBook
    \/ Tick

\* The server has started on a books.json that an earlier run left with one
\* book, created at a clock reading that has passed.
InitStocked ==
    /\ file = Book_addBook(<<>>, 1, Str("Dune"), Str("Herbert"), Str("15"),
                           Str("http://x")).file
    /\ clock = 2
    /\ op = "none"
    /\ bookId = Undefined
    /\ body = NoBody
    /\ result = Undefined
    /\ saved = <<>>
    /\ written = readBooks(file)
    /\ lastCreate = 0
    /\ response = [status |-> 0]
    /\ fault = "none"
    /\ inflight = [h \in Slots |-> IdleSlot(1)]
    /\ expected = file
    /\ dispatched = 0

SpecTicking == (Init \/ InitStocked) /\ [][NextTicking]_vars

\* The server has started on a books.json that cannot be loaded; what the
\* file holds is kept as the content a repaired file would give.
InitFaulty ==
    /\ file \in {<<>>, Book_addBook(<<>>, 1, Str("Dune"), Str("Herbert"),
                                    Str("15"), Str("http://x")).file}
    /\ clock = IF file = <<>> THEN 1 ELSE 2
    /\ op = "none"
    /\ bookId = Undefined
    /\ body = NoBody
    /\ result = Undefined
    /\ saved = <<>>
    /\ written = <<>>
    /\ lastCreate = 0
    /\ response = [status |-> 0]
    /\ fault \in Faults
    /\ inflight = [h \in Slots |-> IdleSlot(1)]
    /\ expected = file
    /\ dispatched = 0

SpecFaulty == InitFaulty /\ [][Next]_vars

NextSteps ==
    \/ \E h \in Slots : Load(h)
    \/ \E h \in Slots : Save(h)
    \/ Tick

\* One server process: both slots are requests delivered to it.
SpecOneProcess == Init /\ [][NextSteps]_vars

\* Two server processes on the same books.json, a slot each.
InitShared ==
    /\ file = <<>>
    /\ clock = 1
    /\ op = "none"
    /\ bookId = Undefined
    /\ body = NoBody
    /\ result = Undefined
    /\ saved = <<>>
    /\ written = readBooks(<<>>)
    /\ lastCreate = 0
    /\ response = [status |-> 0]
    /\ fault = "none"
    /\ inflight = [h \in Slots |-> IdleSlot(h)]
    /\ expected = file
    /\ dispatched = 0

SpecShared == InitShared /\ [][NextSteps]_vars

\* ------------------------------------------------- terms of the claims
\* The collection books.json holds.
Stored == readBooks(file)

\* Whether some book of the collection has the id.
HasId(books, id) == \E i \in DOMAIN books : StrictEq(Get(books[i], "id"), id)

\* The 1-based position of the first book with the id.
FirstWithId(books, id) ==
    CHOOSE i \in DOMAIN books :
        /\ StrictEq(Get(books[i], "id"), id)
        /\ \A j \in 1..(i - 1) : ~StrictEq(Get(books[j], "id"), id)

\* Two books with the same value in every field.
SameBook(a, b) == \A k \in Keys : Get(a, k) = Get(b, k)

SameBooks(x, y) ==
    /\ Len(x) = Len(y)
    /\ \A i \in DOMAIN x : SameBook(x[i], y[i])

\* The fields a form fills in.
FormFields == Keys \ {"id"}

\* Whether a book's fields other than id are exactly the form's.
FieldsAre(book, form) == \A k \in FormFields : Get(book, k) = Get(form, k)

UniqueIds(books) ==
    \A i, j \in DOMAIN books :
        i # j => Get(books[i], "id") # Get(books[j], "id")

IdKeyed == {"getBook", "showEditForm", "updateBook", "deleteBook"}

\* A step in which the controller function `name` handled a request (the
\* clock stands still while a request is handled).
Request(name) == clock' = clock /\ op' = name

\* ------------------------------------------------------------------- C1
\* C1: for an id that no stored book has, getBookById returns undefined,
\* updateBook and deleteBook return null, the file is left as it was and
\* writeBooks is not called.
C1_NotFoundLeavesStore ==
    [][(/\ clock' = clock
        /\ op' \in IdKeyed
        /\ ~HasId(Stored, bookId'))
       => /\ result' = (IF op' \in {"getBook", "showEditForm"}
                        THEN Undefined ELSE Null)
          /\ file' = file
          /\ readBooks(file') = Stored
          /\ saved' = <<>>]_vars

\* An update and a delete of an id absent from a collection of two books
\* or more came back not found.
C1_Witness ==
    /\ op \in {"updateBook", "deleteBook"}
    /\ bookId # NaN
    /\ result = Null
    /\ Len(Stored) >= 2

\* ------------------------------------------------------------------- C2
\* C2: updateBook of an id some stored book has replaces the first book
\* with that id, in place, by one with the same id and exactly the given
\* title, author, cost and shoppingUrl (nothing kept from the old book);
\* the length, the order and every other book are unchanged, and the book
\* returned is the replacing one.
C2_UpdateReplacesInPlace ==
    [][(Request("updateBook") /\ HasId(Stored, bookId'))
       => LET before == Stored
              after == readBooks(file')
              at == FirstWithId(before, bookId')
          IN /\ Len(after) = Len(before)
             /\ \A j \in DOMAIN before : j # at => after[j] = before[j]
             /\ Get(after[at], "id") = Get(before[at], "id")
             /\ FieldsAre(after[at], body')
             /\ SameBook(result', after[at])]_vars

\* An update that left out the author has replaced a book that is not the
\* first of the collection.
C2_Witness ==
    /\ op = "updateBook"
    /\ result # Null
    /\ Get(result, "author") = Undefined
    /\ Len(Stored) >= 2
    /\ FirstWithId(Stored, bookId) > 1

\* ------------------------------------------------------------------- C3
\* C3: deleteBook of an id some stored book has removes the first book with
\* that id and no other, returns the removed book, and saves a collection
\* one shorter whose books keep their values and their order.
C3_DeleteRemovesFirst ==
    [][(Request("deleteBook") /\ HasId(Stored, bookId'))
       => LET before == Stored
              after == readBooks(file')
              at == FirstWithId(before, bookId')
          IN /\ Len(after) = Len(before) - 1
             /\ \A j \in DOMAIN after :
                    after[j] = (IF j < at THEN before[j] ELSE before[j + 1])
             /\ result' = before[at]
             /\ saved' # <<>>
             /\ SameBooks(saved'[1], after)]_vars

\* A delete has removed a book and left two, one of them with the id of
\* the removed one.
C3_Witness ==
    /\ op = "deleteBook"
    /\ result # Null
    /\ Len(Stored) = 2
    /\ HasId(Stored, bookId)

\* ------------------------------------------------------------------- C4
\* C4: addBook saves the previous collection with one book appended at the
\* end, whose fields are the arguments and whose id is the clock reading;
\* the earlier books are unchanged and in order, and the book returned is
\* the appended one. A getAllBooks right after a create into the empty
\* collection returns exactly that one book.
C4_AddAppends ==
    [][/\ Request("addBook")
          => LET before == Stored
                 after == readBooks(file')
             IN /\ Len(after) = Len(before) + 1
                /\ \A j \in DOMAIN before : after[j] = before[j]
                /\ Get(after[Len(after)], "id") = Num(clock)
                /\ FieldsAre(after[Len(after)], body')
                /\ SameBook(result', after[Len(after)])
       /\ (Request("getAllBooks") /\ op = "addBook" /\ Len(Stored) = 1)
          => /\ Len(result') = 1
             /\ SameBook(result'[1], result)
             /\ FieldsAre(result'[1], body)
             /\ Get(result'[1], "id") = Num(lastCreate)]_vars

\* A create has appended a third book, with a form that left fields out.
C4_Witness ==
    /\ op = "addBook"
    /\ Len(Stored) = 3
    /\ Get(result, "author") = Undefined
    /\ Get(Stored[1], "author") # Undefined

\* ------------------------------------------------------------------- C5
\* C5 (under SpecTicking, where the initial collection is empty or holds
\* an id below the clock reading, and the clock passes the reading of a
\* create before the next one): the ids of the stored books are pairwise
\* distinct after any sequence of creates, updates and deletes.
C5_IdsDistinct == UniqueIds(Stored)

\* An update has replaced a book of a collection of two, after a create.
C5_Witness ==
    /\ op = "updateBook"
    /\ result # Null
    /\ lastCreate > 0
    /\ Len(Stored) >= 2

\* ------------------------------------------------------------------- C6
\* C6: an addBook at the clock reading of the addBook before it succeeds
\* like any other: it returns the new book, the controller redirects to /,
\* and the collection, one longer, holds the two books as separate entries
\* with the same id.
C6_SameReadingCollides ==
    [][(Request("addBook") /\ op = "addBook" /\ lastCreate = clock)
       => LET after == readBooks(file')
              n == Len(after)
          IN /\ n = Len(Stored) + 1
             /\ n >= 2
             /\ Get(after[n], "id") = Num(clock)
             /\ Get(after[n - 1], "id") = Num(clock)
             /\ SameBook(after[n - 1], result)
             /\ SameBook(after[n], result')
             /\ FieldsAre(after[n], body')
             /\ response' = Redirect(<<"/">>)]_vars

\* Two creates at one clock reading, with different forms, have left two
\* books with the same id.
C6_Witness ==
    /\ op = "addBook"
    /\ Len(Stored) >= 2
    /\ Get(Stored[Len(Stored)], "id") = Get(Stored[Len(Stored) - 1], "id")
    /\ ~SameBook(Stored[Len(Stored)], Stored[Len(Stored) - 1])

\* ------------------------------------------------------------------- C7
\* C7: the stored collection is always the one most recently passed to
\* writeBooks (the initial one if none was), and it is what getAllBooks
\* returns; and while ids are unique, right after an addBook or a found
\* updateBook, getBookById of the returned book's id gives a book with
\* the field values of the returned one.
C7_ReadsSeeLastSave ==
    /\ SameBooks(Stored, written)
    /\ op = "getAllBooks" => SameBooks(result, written)
    /\ (op \in {"addBook", "updateBook"} /\ Truthy(result)
            /\ UniqueIds(Stored))
       => LET got == Book_getBookById(file, Get(result, "id")).ret
          IN Truthy(got) /\ SameBook(got, result)

\* getAllBooks has returned a collection of two, the last one saved, after
\* the clock passed the reading of the last create.
C7_Witness ==
    /\ op = "getAllBooks"
    /\ Len(result) = 2
    /\ Len(written) = 2
    /\ clock > lastCreate

\* ------------------------------------------------------------------- C8
\* C8: each of getBook, showEditForm, updateBook and deleteBook answers
\* 404 "Book not found" exactly when no stored book has the parsed path
\* id; otherwise it renders book or edit with the first such book, or
\* redirects to /book/<id> or to /; and a 404 leaves the file as it was.
C8_NotFoundIffAbsent ==
    [][(clock' = clock /\ op' \in IdKeyed)
       => IF HasId(Stored, bookId')
          THEN LET first == Stored[FirstWithId(Stored, bookId')]
               IN /\ response' # NotFoundResponse
                  /\ response'.status # 404
                  /\ CASE op' = "getBook" ->
                            response' = Render("book", first)
                       [] op' = "showEditForm" ->
                            response' = Render("edit", first)
                       [] op' = "updateBook" ->
                            /\ response'.status = 302
                            /\ SubSeq(response'.redirect, 1, 6)
                                   = <<"/", "b", "o", "o", "k", "/">>
                            /\ parseInt(SubSeq(response'.redirect, 7,
                                               Len(response'.redirect)))
                                   = Get(first, "id")
                       [] op' = "deleteBook" ->
                            response' = Redirect(<<"/">>)
          ELSE /\ response' = NotFoundResponse
               /\ response'.status = 404
               /\ file' = file]_vars

\* An update of an id absent from a collection of two was answered 404.
C8_Witness ==
    /\ op = "updateBook"
    /\ bookId # NaN
    /\ response = NotFoundResponse
    /\ Len(Stored) >= 2

\* ------------------------------------------------------------------- C9
\* C9: when the path id parses to NaN, each of the four id-keyed handlers
\* answers 404 "Book not found" and leaves the file as it was, whatever
\* the collection.
C9_NaNIsNotFound ==
    [][(clock' = clock /\ op' \in IdKeyed /\ bookId' = NaN)
       => /\ response' = NotFoundResponse
          /\ file' = file
          /\ saved' = <<>>]_vars

\* A delete with a path id that is no number was answered 404 with books
\* in the collection.
C9_Witness ==
    /\ op = "deleteBook"
    /\ bookId = NaN
    /\ response = NotFoundResponse
    /\ Len(Stored) >= 2

\* ------------------------------------------------------------------ C10
\* C10: saving what load returns leaves the file's content as it was, and
\* a load after it returns an equal collection.
C10_SaveLoadRoundTrip ==
    LET loaded == readBooks(file)
        resaved == writeBooks(file, loaded)
    IN /\ resaved = file
       /\ readBooks(resaved) = loaded

\* The file holds two books or more, one of them written without its
\* author.
C10_Witness ==
    /\ Len(file) >= 2
    /\ \E i \in DOMAIN Stored : "author" \notin DOMAIN Stored[i]
    /\ \E i \in DOMAIN Stored : "author" \in DOMAIN Stored[i]

\* ------------------------------------------------------------------ C14
\* The positions of the books with the id.
WithId(books, id) == {i \in DOMAIN books : StrictEq(Get(books[i], "id"), id)}

\* C14: when several stored books have the path id, getBookById returns,
\* updateBook replaces and deleteBook removes the first of them in
\* collection order and leaves the later ones as they were; after the
\* delete the id is still held, and getBookById of it returns the next of
\* them.
C14_DuplicatesFirstOnly ==
    [][(clock' = clock /\ op' \in IdKeyed /\ Len(file) >= 2)
       => LET before == Stored
              same == WithId(before, bookId')
          IN Cardinality(same) >= 2
             => LET after == readBooks(file')
                    at == FirstWithId(before, bookId')
                    next == CHOOSE j \in same \ {at} :
                                \A k \in same \ {at} : j <= k
                IN CASE op' \in {"getBook", "showEditForm"} ->
                          /\ result' = before[at]
                          /\ after = before
                     [] op' = "updateBook" ->
                          /\ SameBook(result', after[at])
                          /\ FieldsAre(after[at], body')
                          /\ \A j \in DOMAIN before :
                               j # at => after[j] = before[j]
                          /\ WithId(after, bookId') = same
                     [] op' = "deleteBook" ->
                          /\ result' = before[at]
                          /\ Len(after) = Len(before) - 1
                          /\ \A j \in DOMAIN after :
                               after[j] = (IF j < at THEN before[j]
                                           ELSE before[j + 1])
                          /\ Book_getBookById(file', bookId').ret
                                 = before[next]]_vars

\* A delete has removed a book, and a book with other field values is
\* still found under the id of the removed one.
C14_Witness ==
    /\ op = "deleteBook"
    /\ result # Null
    /\ HasId(Stored, bookId)
    /\ ~SameBook(result, find(Stored, bookId))

\* ------------------------------------------------------------------ C13
\* C13 (under SpecFaulty, where books.json cannot be loaded): every request
\* that calls the model ends in the exception of readBooks: the model call
\* returns no value, writeBooks is not called, the file and what is wrong
\* with it stay as they were, and the request is not answered as a success
\* or a not-found.
C13_LoadFailureRaises ==
    [][(clock' = clock /\ fault \in Faults)
       => /\ result' = Thrown(fault)
          /\ saved' = <<>>
          /\ written' = written
          /\ file' = file
          /\ fault' = fault
          /\ response'.status \notin {200, 302, 404}]_vars

\* A create on a books.json that holds a book and is no JSON has ended in
\* the exception.
C13_Witness ==
    /\ op = "addBook"
    /\ fault = "SyntaxError"
    /\ result = Thrown("SyntaxError")
    /\ Len(file) >= 1

\* ------------------------------------------------------------------ C11
\* C11 (under SpecShared, two server processes on one books.json): when a
\* handler saves after another process has saved since it loaded, the file
\* becomes its own copy, the collection it loaded with its own change and
\* nothing of the save in between, and it answers with its success
\* response; of two creates that loaded the same collection one book is
\* stored and both were answered with the redirect to /.
C11_LastSaveWins ==
    [][\A h \in Slots :
         (/\ inflight[h].pc = "loaded"
          /\ inflight'[h].pc = "idle"
          /\ inflight[h].overtaken
          /\ inflight[h].out.saved # <<>>)
         => LET me == inflight[h]
                other == inflight[CHOOSE g \in Slots : g # h]
                after == readBooks(file')
            IN /\ SameBooks(after, me.out.saved[1])
               /\ after = readBooks(Perform(me.req, me.snap, me.now).file)
               /\ inflight'[h].resp.status = 302
               /\ (/\ me.req.op = "addBook"
                   /\ other.req.op = "addBook"
                   /\ other.pc = "idle"
                   /\ other.snap = me.snap)
                  => /\ Len(after) = Len(readBooks(me.snap)) + 1
                     /\ SameBook(after[Len(after)], me.out.ret)
                     /\ Len(after) = Len(Stored)
                     /\ other.resp = Redirect(<<"/">>)
                     /\ inflight'[h].resp = Redirect(<<"/">>)]_vars

\* Two creates with different forms, one in each process, both loaded the
\* empty collection and both were answered with the redirect; one book is
\* stored.
C11_Witness ==
    /\ \A h \in Slots :
         /\ inflight[h].pc = "idle"
         /\ inflight[h].req.op = "addBook"
         /\ inflight[h].snap = <<>>
         /\ inflight[h].resp = Redirect(<<"/">>)
    /\ inflight[1].req.form # inflight[2].req.form
    /\ \E h \in Slots : inflight[h].overtaken
    /\ Len(Stored) = 1
    /\ file # expected

\* ------------------------------------------------------------------ C12
\* C12 (under SpecOneProcess, every request delivered to one process):
\* while a handler is between its load and its save no other handler has
\* begun and the file is as the handler loaded it; what it saves, and the
\* file once every handler has returned, is the content that handling the
\* requests one after another in dispatch order gives.
C12_RunToCompletion ==
    /\ \A h \in Slots :
         inflight[h].pc = "loaded"
         => /\ \A g \in Slots \ {h} : inflight[g].pc = "idle"
            /\ inflight[h].snap = file
            /\ ~inflight[h].overtaken
            /\ expected = (IF inflight[h].out.saved # <<>>
                           THEN inflight[h].out.file ELSE file)
    /\ (\A h \in Slots : inflight[h].pc = "idle") => file = expected

\* Three requests were handled, a create in one slot and then an update in
\* the other among them, and two books are stored.
C12_Witness ==
    /\ \A h \in Slots : inflight[h].pc = "idle"
    /\ dispatched >= 3
    /\ inflight[1].req.op = "addBook"
    /\ inflight[2].req.op = "updateBook"
    /\ inflight[2].resp.status = 302
    /\ Len(Stored) >= 2

====
